---- MODULE Spec2Model ----
(***************************************************************************)
(* BrainStream: the collection pipeline (scheduler, collector, article     *)
(* processor, SQL article table) and the topology / bandit state (vector   *)
(* collection, cluster arms, action log), modelled from backend/src.       *)
(***************************************************************************)
EXTENDS Integers, Sequences, FiniteSets, TLC

(***************************************************************************)
(* Bounds of the model.                                                    *)
(***************************************************************************)
MaxRuns == 2
MaxFetch == 2
MaxBatch == 2
MaxIngests == 3
MaxActions == 2
MaxStore == 6
MaxCallers == 2
MaxFeeds == 1
MaxFeedStore == 12
SampleLevels == 3

\* settings.hdbscan_min_cluster_size (default 5, read from the environment),
\* set small so that two clusters fit in MaxStore records.
MinClusterSize == 3

(***************************************************************************)
(* Program constants.                                                      *)
(***************************************************************************)
FallbackCut == 300
SentenceMin == 100
ResponseCut == 500
FeedDefaultLimit == 20
SerendipitySlots == 2
BoundaryCount == 3
LowClustersMin == 3

(***************************************************************************)
(* Text.  A text is a sequence of one-character strings; None is a marker  *)
(* that is no text.                                                        *)
(***************************************************************************)
NoneText == <<"None">>
NoneStr == "None"

Rep(c, n) == [i \in 1..n |-> c]

Min(a, b) == IF a < b THEN a ELSE b

Max(a, b) == IF a > b THEN a ELSE b

Take(s, n) == SubSeq(s, 1, Min(n, Len(s)))

\* str.lower() on the strings this model uses.
Lower(s) ==
    CASE s = "AWS" -> "aws"
      [] s = "GCP" -> "gcp"
      [] s = "AI" -> "ai"
      [] s = "Compute" -> "compute"
      [] s = "Lambda" -> "lambda"
      [] OTHER -> s

\* re.sub(r"<[^>]+>", "", s): the leftmost "<" that is followed by at least
\* one character other than ">" and then a ">" starts a match, which ends at
\* the first ">" after it.
RECURSIVE StripTags(_)
StripTags(s) ==
    LET opens == {i \in 1..Len(s) :
                    /\ s[i] = "<"
                    /\ \E j \in (i + 2)..Len(s) :
                         /\ s[j] = ">"
                         /\ \A k \in (i + 1)..(j - 1) : s[k] # ">"}
    IN  IF opens = {} THEN s
        ELSE LET i == CHOOSE x \in opens : \A y \in opens : x <= y
                 j == CHOOSE x \in (i + 2)..Len(s) :
                        /\ s[x] = ">"
                        /\ \A k \in (i + 1)..(x - 1) : s[k] # ">"
             IN  SubSeq(s, 1, i - 1) \o StripTags(SubSeq(s, j + 1, Len(s)))

\* str.rstrip() for the whitespace this model uses.
RStrip(s) ==
    LET keep == {i \in 1..Len(s) : s[i] # " "}
    IN  IF keep = {} THEN <<>>
        ELSE SubSeq(s, 1, CHOOSE i \in keep : \A k \in keep : k <= i)

\* str.rfind("."), as a 0-based index, -1 when there is none.
RFindPeriod(s) ==
    LET at == {i \in 1..Len(s) : s[i] = "."}
    IN  IF at = {} THEN -1
        ELSE (CHOOSE i \in at : \A k \in at : k <= i) - 1

\* The summary _apply_fallback derives from the original content.
FallbackSummary(content) ==
    LET clean == StripTags(content)
    IN  IF Len(clean) > FallbackCut
        THEN LET cut == Take(clean, FallbackCut)
                 last_period == RFindPeriod(cut)
             IN  IF last_period > SentenceMin
                 THEN Take(cut, last_period + 1)
                 ELSE RStrip(cut) \o <<".", ".", ".">>
        ELSE clean

(***************************************************************************)
(* Plugins and the raw articles they can return.                           *)
(***************************************************************************)
PluginNames == <<"aws-whatsnew", "gcp-release-notes">>

PluginVendor(name) == IF name = "aws-whatsnew" THEN "AWS" ELSE "GCP"

ContentShort == <<"<", "b", ">", "H", "i", "<", "/", "b", ">", ".">>
ContentLong == Rep("x", 150) \o <<".">> \o Rep("x", 200)
ContentDense == Rep("x", 50) \o <<".">> \o Rep("x", 245) \o Rep(" ", 10) \o Rep("x", 20)

RawArticle(id, url, title, content, published, vendor, cats) ==
    [external_id |-> id, primary_source_url |-> url, original_title |-> title,
     original_content |-> content, published_at |-> published, vendor |-> vendor,
     categories |-> cats]

\* published_at 0 stands for None.
PluginItems(name) ==
    IF name = "aws-whatsnew"
    THEN {RawArticle("a", "u1", "t1", ContentShort, 1, "AWS", <<"Compute">>),
          RawArticle("b", "u2", "t2", ContentLong, 2, "AWS", <<>>)}
    ELSE {RawArticle("a", "u3", "t3", ContentDense, 0, "GCP", <<"AI", "AI">>),
          RawArticle("c", "u4", "t4", ContentShort, 3, "GCP", <<"AI">>)}

SeqsUpTo(S, n) == UNION {[1..k -> S] : k \in 0..n}

FetchOutputs(name) == SeqsUpTo(PluginItems(name), MaxFetch)

(***************************************************************************)
(* The summarizer and the article processor.                               *)
(***************************************************************************)
\* What one summarizer call can end in: a decoded answer, the tool missing
\* (no provider), a timeout or a non-zero exit (both raised by _run_claude),
\* output no JSON parse decodes, and a failure outside process_raw_article's
\* try block.
Outcomes == {"ok", "missing", "timeout", "exit", "undecodable", "provider_error"}

RaisingOutcomes == {"timeout", "exit"}

\* The decoded answer of the tool, and its raw output when undecodable.
LLMAnswer ==
    [title |-> "T", content |-> <<"S", ".">>, tags |-> <<"AI", "ai">>,
     vendor_services |-> <<"Lambda">>]

LLMGarbage == <<"o", "o", "p", "s">>

Range(s) == {s[i] : i \in 1..Len(s)}

RECURSIVE SetToSeq(_)
SetToSeq(S) ==
    IF S = {} THEN <<>>
    ELSE LET x == CHOOSE y \in S : TRUE IN <<x>> \o SetToSeq(S \ {x})

\* ClaudeCodeProvider.analyze: the ProcessingResult it returns, for the
\* outcomes in which it returns one.
Analyze(raw, oc) ==
    IF oc \in RaisingOutcomes
    THEN [raises |-> TRUE, title |-> NoneStr, content |-> NoneText,
          tags |-> <<>>, vendor_services |-> <<>>]
    ELSE IF oc = "ok"
    THEN [raises |-> FALSE, title |-> LLMAnswer.title, content |-> LLMAnswer.content,
          tags |-> LLMAnswer.tags, vendor_services |-> LLMAnswer.vendor_services]
    ELSE [raises |-> FALSE, title |-> raw.original_title,
          content |-> Take(LLMGarbage, ResponseCut),
          tags |-> <<Lower(raw.vendor)>>, vendor_services |-> <<>>]

\* The Article built from a raw article before any processing.
BaseArticle(raw, source_id, uid) ==
    [id |-> uid, source_id |-> source_id, external_id |-> raw.external_id,
     primary_source_url |-> raw.primary_source_url,
     original_title |-> raw.original_title,
     original_content |-> raw.original_content,
     vendor |-> raw.vendor, published_at |-> raw.published_at,
     tags |-> raw.categories, summary_title |-> NoneStr,
     summary_content |-> NoneText, processed_at |-> FALSE,
     llm_provider |-> NoneStr]

ApplyProcessingResult(article, result) ==
    [article EXCEPT
       !.summary_title = result.title,
       !.summary_content = result.content,
       !.tags = SetToSeq(Range(article.tags) \cup Range(result.tags)
                           \cup Range(result.vendor_services)),
       !.processed_at = TRUE,
       !.llm_provider = ""]

ApplyFallback(article, raw) ==
    [article EXCEPT
       !.summary_title = raw.original_title,
       !.summary_content = FallbackSummary(raw.original_content),
       !.processed_at = TRUE,
       !.llm_provider = "fallback"]

\* process_raw_article for the outcomes it returns an Article in.
ProcessRawArticle(raw, source_id, uid, oc) ==
    LET article == BaseArticle(raw, source_id, uid)
        result == Analyze(raw, oc)
    IN  IF oc = "missing" THEN ApplyFallback(article, raw)
        ELSE IF result.raises THEN ApplyFallback(article, raw)
        ELSE ApplyProcessingResult(article, result)

\* process_batch: one Article per raw article, in order; ocs[i] is the
\* outcome of the summarizer for the i-th one.
ProcessBatchStopsAtFailure(raws, source_id, run, ocs) ==
    LET bad == {i \in 1..Len(raws) : ocs[i] # "ok"}
        n == IF bad = {} THEN Len(raws)
             ELSE (CHOOSE i \in bad : \A k \in bad : i <= k) - 1
    IN  [i \in 1..n |-> ProcessRawArticle(raws[i], source_id, <<run, source_id, i>>, ocs[i])]

ProcessBatch(raws, source_id, run, ocs) ==
    [i \in 1..Len(raws) |->
       IF ocs[i] = "provider_error"
       THEN BaseArticle(raws[i], source_id, <<run, source_id, i>>)
       ELSE ProcessRawArticle(raws[i], source_id, <<run, source_id, i>>, ocs[i])]

\* The rows saved when processing is skipped.
UnprocessedBatch(raws, source_id, run) ==
    [i \in 1..Len(raws) |-> BaseArticle(raws[i], source_id, <<run, source_id, i>>)]

(***************************************************************************)
(* State.                                                                  *)
(***************************************************************************)
VARIABLES
    articles,        \* the SQL table "articles", in insertion order
    sources,         \* the SQL table "data_sources", by plugin name
    runs,            \* the executions of collect_all, by run id
    schedRunning,    \* scheduler.running
    startupPending,  \* the job fetch_all_sources_startup has not fired yet
    lastOk,          \* per plugin, the output of its last collection that completed
    collection,      \* the vector collection "articles", by external id
    arms,            \* the table cluster_arms, by cluster_id
    actionLogs,      \* the table action_logs, in insertion order
    reclusteredBy,   \* who has called TopologyEngine.recluster so far
    lastIngest,      \* the last call of embed_and_store and what it returned
    fitted,          \* how many records the last recluster clustered, 0 before it
    lastAction,      \* the arguments of the last call of record_action
    calls,           \* the calls of record_action running side by side, by caller
    lastFeed,        \* the last call of generate_feed and what it returned
    lastCall,        \* the last call of an operation that changes no state, and its result
    recl,            \* the call of recluster in progress: its labels and how far it has written
    timeline         \* the clock, what the feed of aws-whatsnew lists, and the source's last_fetched_at

collectorVars == <<articles, sources, runs, lastOk>>
schedulerVars == <<schedRunning, startupPending>>
topologyVars == <<collection, arms, actionLogs, reclusteredBy, lastIngest, fitted,
                  lastAction, calls, lastFeed,
          lastCall,
          recl,
          timeline>>
vars == <<articles, sources, runs, schedRunning, startupPending, lastOk,
          collection, arms, actionLogs, reclusteredBy, lastIngest, fitted, lastAction,
          calls, lastFeed,
          lastCall,
          recl,
          timeline>>

RunIds == 1..MaxRuns

CallerIds == 1..MaxCallers

\* No call of a reading operation yet.
NoCall == [op |-> NoneStr, args |-> <<>>, result |-> <<>>]

\* No call of recluster in progress.
IdleRecluster == [pc |-> "idle", before |-> <<>>, labels |-> <<>>, i |-> 0, todo |-> {}]

\* The clock at 1, nothing listed, last_fetched_at None (0); run is the
\* parity of the number of collections made, which tells a collection from
\* the one before it.
NoTimeline == [now |-> 1, listed |-> {}, last_fetched_at |-> 0, run |-> 0]

\* No call of generate_feed yet.
NoFeed ==
    [n |-> 0, limit |-> 0, vendor_filter |-> NoneStr, primary_only |-> FALSE,
     offset |-> 0, sampled |-> <<>>, items |-> <<>>]

\* A caller that has not called record_action.
IdleCall ==
    [pc |-> "idle", article_id |-> NoneStr, action |-> NoneStr, cluster_id |-> -1,
     overlapped |-> FALSE]

Plugins == Range(PluginNames)

NoOutput == [known |-> FALSE, out |-> <<>>]

\* A run's loop state (pc, i, raw, new, arts), what it has accumulated
\* (results, totals), and for the properties: ocs, the summarizer outcomes of
\* the batch in hand; repeat, whether the output in hand equals the output
\* of the plugin's last completed collection.
IdleRun ==
    [pc |-> "idle", kind |-> "none", skip |-> FALSE, i |-> 0,
     raw |-> <<>>, new |-> <<>>, ocs |-> <<>>, repeat |-> FALSE, arts |-> <<>>,
     results |-> <<>>, total_fetched |-> 0, total_new |-> 0,
     total_processed |-> 0]

InFlight(r) == runs[r].pc \notin {"idle", "done", "raised"}

InitCommon ==
    /\ articles = <<>>
    /\ sources = [p \in Plugins |-> [fetch_status |-> "absent", fetched |-> FALSE]]
    /\ runs = [r \in RunIds |-> IdleRun]
    /\ lastOk = [p \in Plugins |-> NoOutput]
    /\ collection = <<>>
    /\ arms = <<>>
    /\ actionLogs = <<>>
    /\ reclusteredBy = {}
    /\ lastIngest = [n |-> 0, batch |-> <<>>, getOk |-> TRUE, returned |-> 0,
                     raised |-> FALSE]
    /\ fitted = 0
    /\ lastAction = [article_id |-> NoneStr, action |-> NoneStr]
    /\ calls = [p \in CallerIds |-> IdleCall]
    /\ lastFeed = NoFeed
    /\ lastCall = NoCall
    /\ recl = IdleRecluster
    /\ timeline = NoTimeline

\* The server after lifespan's startup: setup_scheduler(start_immediately=True)
\* and start_scheduler().
InitServer ==
    /\ InitCommon
    /\ schedRunning = TRUE
    /\ startupPending = TRUE

\* A command-line process: no scheduler.
InitCli ==
    /\ InitCommon
    /\ schedRunning = FALSE
    /\ startupPending = FALSE

(***************************************************************************)
(* CollectorService.                                                       *)
(***************************************************************************)
\* _deduplicate: the raw articles whose external_id no stored row has.
DeduplicateKeepsAll(rows, raw_articles) ==
    SelectSeq(raw_articles, LAMBDA a : TRUE)

Deduplicate(rows, raw_articles) ==
    LET existing_ids == {rows[k].external_id : k \in 1..Len(rows)}
    IN  SelectSeq(raw_articles, LAMBDA a : a.external_id \notin existing_ids)

\* A CollectionResult; items, ocs and repeat record, for the properties, the
\* new raw articles the counts stand for, the summarizer's outcome for each,
\* and whether the plugin's output repeated its last collected one.
CollectionResult(name, fetched, new, processed, errors, run) ==
    [source_name |-> name, fetched |-> fetched, new |-> new,
     processed |-> processed, errors |-> errors,
     items |-> IF errors = <<>> THEN run.new ELSE <<>>,
     ocs |-> IF errors = <<>> THEN run.ocs ELSE <<>>,
     repeat |-> errors = <<>> /\ run.repeat]

\* collect_all begins: CollectorService(tech_stack, skip_processing).collect_all().
BeginRun(r, kind, skip) ==
    /\ runs[r].pc = "idle"
    /\ \A q \in RunIds : q < r => runs[q].pc # "idle"
    /\ runs' = [runs EXCEPT ![r] =
                  [IdleRun EXCEPT !.pc = "fetch", !.kind = kind, !.skip = skip,
                                  !.i = 1]]

\* The loop of collect_all moves to the next plugin, or returns the summary.
Advance(run, result) ==
    [run EXCEPT
       !.pc = IF run.i = Len(PluginNames) THEN "done" ELSE "fetch",
       !.i = IF run.i = Len(PluginNames) THEN run.i ELSE run.i + 1,
       !.raw = <<>>, !.new = <<>>, !.ocs = <<>>, !.arts = <<>>, !.repeat = FALSE,
       !.results = Append(run.results, result),
       !.total_fetched = run.total_fetched + result.fetched,
       !.total_new = run.total_new + result.new,
       !.total_processed = run.total_processed + result.processed]

\* What collect_all does with an exception of collect_from_plugin.
OnPluginExceptionAborts(run, name, e) ==
    [Advance(run, CollectionResult(name, 0, 0, 0, <<e>>, run)) EXCEPT !.pc = "raised"]

OnPluginException(run, name, e) ==
    Advance(run, CollectionResult(name, 0, 0, 0, <<e>>, run))

ProcessedCount(arts) == Cardinality({k \in 1..Len(arts) : arts[k].processed_at})

\* collect_from_plugin: the source record exists from here on; fetch_updates
\* returns out; _deduplicate.  With nothing new the source is marked healthy
\* and the result returned; with processing skipped the rows are built here.
FetchOk(r, out) ==
    /\ runs[r].pc = "fetch"
    /\ LET name == PluginNames[runs[r].i]
           new == Deduplicate(articles, out)
           run == [runs[r] EXCEPT !.raw = out, !.new = new,
                                  !.repeat = (lastOk[name].known /\ out = lastOk[name].out)]
       IN  /\ out \in FetchOutputs(name)
           /\ IF new = <<>>
              THEN /\ runs' = [runs EXCEPT ![r] =
                        Advance(run, CollectionResult(name, Len(out), 0, 0, <<>>, run))]
                   /\ sources' = [sources EXCEPT ![name] =
                        [fetch_status |-> "healthy", fetched |-> TRUE]]
                   /\ lastOk' = [lastOk EXCEPT ![name] = [known |-> TRUE, out |-> out]]
              ELSE /\ runs' = [runs EXCEPT ![r] =
                        IF run.skip
                        THEN [run EXCEPT !.pc = "save",
                                         !.ocs = [k \in 1..Len(new) |-> "skipped"],
                                         !.arts = UnprocessedBatch(new, name, r)]
                        ELSE [run EXCEPT !.pc = "process"]]
                   /\ sources' = [sources EXCEPT ![name] =
                        IF sources[name].fetch_status = "absent"
                        THEN [fetch_status |-> "pending", fetched |-> FALSE]
                        ELSE sources[name]]
                   /\ UNCHANGED lastOk
    /\ UNCHANGED <<articles, schedulerVars, topologyVars>>

\* collect_from_plugin: fetch_updates raises; the source is marked "error",
\* the exception re-raised and caught by collect_all.
FetchFail(r) ==
    /\ runs[r].pc = "fetch"
    /\ LET name == PluginNames[runs[r].i]
       IN  /\ sources' = [sources EXCEPT ![name] =
                 [fetch_status |-> "error", fetched |-> sources[name].fetched]]
           /\ runs' = [runs EXCEPT ![r] = OnPluginException(runs[r], name, "fetch failed")]
    /\ UNCHANGED <<articles, lastOk, schedulerVars, topologyVars>>

\* collect_from_plugin: process_batch over the new articles.
Process(r, ocs) ==
    /\ runs[r].pc = "process"
    /\ ocs \in [1..Len(runs[r].new) -> Outcomes]
    /\ runs' = [runs EXCEPT ![r] =
                  [runs[r] EXCEPT
                     !.pc = "save", !.ocs = ocs,
                     !.arts = ProcessBatch(runs[r].new, PluginNames[runs[r].i], r, ocs)]]
    /\ UNCHANGED <<articles, sources, lastOk, schedulerVars, topologyVars>>

\* collect_from_plugin: session.add for each article and the commit; then the
\* source is marked healthy and the result returned.
SaveOk(r) ==
    /\ runs[r].pc = "save"
    /\ LET run == runs[r]
           name == PluginNames[run.i]
       IN  /\ articles' = articles \o run.arts
           /\ sources' = [sources EXCEPT ![name] =
                 [fetch_status |-> "healthy", fetched |-> TRUE]]
           /\ lastOk' = [lastOk EXCEPT ![name] = [known |-> TRUE, out |-> run.raw]]
           /\ runs' = [runs EXCEPT ![r] =
                 Advance(run,
                         CollectionResult(name, Len(run.raw), Len(run.new),
                                          IF run.skip THEN 0
                                          ELSE ProcessedCount(run.arts),
                                          <<>>, run))]
    /\ UNCHANGED <<schedulerVars, topologyVars>>

\* collect_from_plugin: the commit of the batch raises; nothing is stored and
\* the exception reaches collect_all.
SaveFail(r) ==
    /\ runs[r].pc = "save"
    /\ runs' = [runs EXCEPT ![r] =
                  OnPluginException(runs[r], PluginNames[runs[r].i], "commit failed")]
    /\ UNCHANGED <<articles, sources, lastOk, schedulerVars, topologyVars>>

\* One step of run r; O is what the summarizer can end in and n the most
\* articles a fetch returns.
RunStep(r, O, n) ==
    \/ /\ runs[r].pc = "fetch"
       /\ \E out \in SeqsUpTo(PluginItems(PluginNames[runs[r].i]), n) : FetchOk(r, out)
    \/ FetchFail(r)
    \/ /\ runs[r].pc = "process"
       /\ \E ocs \in [1..Len(runs[r].new) -> O] : Process(r, ocs)
    \/ SaveOk(r)
    \/ SaveFail(r)

\* The command "brainstream fetch [--skip-llm]", run to completion each time.
CliFetch(r, skip) ==
    /\ \A q \in RunIds : ~InFlight(q)
    /\ BeginRun(r, "cli", skip)
    /\ UNCHANGED <<articles, sources, lastOk, schedulerVars, topologyVars>>

\* One "brainstream fetch": every plugin output, every summarizer outcome.
NextPipeline ==
    \/ \E skip \in BOOLEAN : CliFetch(1, skip)
    \/ RunStep(1, Outcomes, MaxFetch)

SpecPipeline == InitCli /\ [][NextPipeline]_vars

\* "brainstream fetch" run again and again on a machine without the
\* summarizer tool.
NextCollect ==
    \/ \E r \in RunIds, skip \in BOOLEAN : CliFetch(r, skip)
    \/ \E r \in RunIds : RunStep(r, {"missing"}, MaxFetch)

SpecCollect == InitCli /\ [][NextCollect]_vars

(***************************************************************************)
(* The scheduler and the API's manual trigger.                             *)
(***************************************************************************)
\* The one-off job "fetch_all_sources_startup" fires: fetch_all_sources_job.
StartupJob(r) ==
    /\ schedRunning
    /\ startupPending
    /\ BeginRun(r, "startup", FALSE)
    /\ startupPending' = FALSE
    /\ UNCHANGED <<articles, sources, lastOk, schedRunning, topologyVars>>

\* The interval job "fetch_all_sources" fires; with max_instances=1 a tick
\* that finds an instance of this job still running starts nothing.
IntervalTick(r) ==
    /\ schedRunning
    /\ \A q \in RunIds : ~(InFlight(q) /\ runs[q].kind = "interval")
    /\ BeginRun(r, "interval", FALSE)
    /\ UNCHANGED <<articles, sources, lastOk, schedulerVars, topologyVars>>

\* POST /sources/fetch: trigger_fetch_all awaits collect_all.
TriggerFetchAll(r) ==
    /\ BeginRun(r, "api", FALSE)
    /\ UNCHANGED <<articles, sources, lastOk, schedulerVars, topologyVars>>

\* stop_scheduler: scheduler.shutdown(wait=False).
StopScheduler ==
    /\ schedRunning
    /\ schedRunning' = FALSE
    /\ startupPending' = FALSE
    /\ UNCHANGED <<collectorVars, topologyVars>>

\* The server on a machine without the summarizer tool, its sources
\* listing one article at a time.
NextServer ==
    \/ \E r \in RunIds : StartupJob(r)
    \/ \E r \in RunIds : IntervalTick(r)
    \/ \E r \in RunIds : TriggerFetchAll(r)
    \/ StopScheduler
    \/ \E r \in RunIds : RunStep(r, {"missing"}, 1)

SpecServer == InitServer /\ [][NextServer]_vars

\* C1: at no time are two executions of collect_all in progress.
C1_OneCollectionRunAtATime ==
    Cardinality({r \in RunIds : InFlight(r)}) <= 1

\* C19: once stop_scheduler has returned, no run the scheduler started is
\* still in flight: stop waits for the run in flight to return.
C19_StopWaitsForRunInFlight ==
    ~schedRunning =>
        \A r \in RunIds : ~(InFlight(r) /\ runs[r].kind \in {"startup", "interval"})

(***************************************************************************)
(* TopologyEngine: reads.                                                  *)
(***************************************************************************)
NoArticle == [id |-> NoneStr]

\* get_article: the record of the vector collection under this id, or None.
GetArticle(article_id) ==
    LET hits == {k \in 1..Len(collection) : collection[k].id = article_id}
    IN  IF hits = {} THEN NoArticle
        ELSE LET rec == collection[CHOOSE k \in hits : TRUE]
             IN  [f \in DOMAIN rec \ {"embedding"} |-> rec[f]]

(***************************************************************************)
(* Properties of the collection pipeline.                                  *)
(***************************************************************************)
Done(r) == runs[r].pc = "done"

\* The rows the run r stored for the j-th new article of the plugin name.
RowsFor(r, name, j) ==
    {k \in 1..Len(articles) : articles[k].id = <<r, name, j>>}

StoredOnce(r, name, j, raw) ==
    /\ Cardinality(RowsFor(r, name, j)) = 1
    /\ \A k \in RowsFor(r, name, j) :
         /\ articles[k].external_id = raw.external_id
         /\ articles[k].primary_source_url = raw.primary_source_url
         /\ articles[k].original_title = raw.original_title
         /\ articles[k].vendor = raw.vendor
         /\ articles[k].published_at = raw.published_at

RowFor(r, name, j) == articles[CHOOSE k \in RowsFor(r, name, j) : TRUE]

FetchFailed(res) == res.errors = <<"fetch failed">>

SaveFailed(res) == res.errors = <<"commit failed">>

\* C2: when a collection run has returned, every item it counted as new is
\* in the Topology store: get_article(external_id) returns a record whose
\* id, url, title, vendor and published_at are those of the raw article.
C2_NewItemsRetrievableFromTopology ==
    \A r \in RunIds : Done(r) =>
      \A k \in 1..Len(runs[r].results) :
        \A j \in 1..Len(runs[r].results[k].items) :
          LET raw == runs[r].results[k].items[j]
              got == GetArticle(raw.external_id)
          IN  /\ got # NoArticle
              /\ got.id = raw.external_id
              /\ got.url = raw.primary_source_url
              /\ got.original_title = raw.original_title
              /\ got.vendor = raw.vendor
              /\ got.published_at = raw.published_at

\* C3: a collection of a plugin whose output equals the output of that
\* plugin's last completed collection reports new = 0 and no error, and a
\* run in which every plugin's output is such a repetition stores no row, so
\* that the number of stored rows is what it was when the run began.
C3_SecondRunFindsNothingNew ==
    \A r \in RunIds :
      /\ \A k \in 1..Len(runs[r].results) :
           runs[r].results[k].repeat =>
             /\ runs[r].results[k].new = 0
             /\ runs[r].results[k].errors = <<>>
      /\ (Done(r) /\ \A k \in 1..Len(runs[r].results) : runs[r].results[k].repeat)
           => \A row \in 1..Len(articles) : articles[row].id[1] # r

\* C3 witness: a second run has returned, every plugin returned to it what
\* it had returned before, something non-empty, and rows are stored.
C3_Witness ==
    /\ Done(2)
    /\ \A k \in 1..Len(runs[2].results) :
         runs[2].results[k].repeat /\ runs[2].results[k].fetched = MaxFetch
    /\ Len(articles) > 0

\* C5: a fetch failure of one plugin does not end the run: the run goes on,
\* and when it has returned the summary has one result per registered plugin,
\* in order, the failed one with a non-empty errors list, and each plugin
\* that reported no error has every one of its new items stored.
C5_FetchFailureIsolated ==
    \A r \in RunIds :
      (\E k \in 1..Len(runs[r].results) : FetchFailed(runs[r].results[k])) =>
        /\ runs[r].pc # "raised"
        /\ runs[r].pc # "idle"
        /\ Done(r) =>
             /\ Len(runs[r].results) = Len(PluginNames)
             /\ \A k \in 1..Len(runs[r].results) :
                  LET res == runs[r].results[k]
                  IN  /\ res.source_name = PluginNames[k]
                      /\ FetchFailed(res) => res.errors # <<>> /\ res.new = 0
                      /\ res.errors = <<>> =>
                           /\ res.new = Len(res.items)
                           /\ \A j \in 1..Len(res.items) :
                                StoredOnce(r, res.source_name, j, res.items[j])

\* C5 witness: the first plugin's fetch failed and the second plugin's new
\* items were stored in the same run.
C5_Witness ==
    /\ Done(1)
    /\ FetchFailed(runs[1].results[1])
    /\ runs[1].results[2].errors = <<>>
    /\ runs[1].results[2].new = MaxFetch
    /\ Len(articles) = MaxFetch

\* C6: every article that survived dedup in a collection whose save
\* succeeded is stored exactly once by that run, with its own external_id,
\* whatever the summarizer did for it or for the articles before it.
C6_SurvivorsStoredOnce ==
    \A r \in RunIds :
      \A k \in 1..Len(runs[r].results) :
        LET res == runs[r].results[k]
        IN  res.errors = <<>> =>
              /\ Len(res.ocs) = Len(res.items)
              /\ \A j \in 1..Len(res.items) :
                   StoredOnce(r, res.source_name, j, res.items[j])
              /\ \A row \in 1..Len(articles) :
                   (articles[row].id[1] = r /\ articles[row].id[2] = res.source_name)
                     => articles[row].id[3] \in 1..Len(res.items)

\* C6 witness: the summarizer failed on the first of two new articles and
\* answered on the second, and both are stored.
C6_Witness ==
    \E r \in RunIds : \E k \in 1..Len(runs[r].results) :
      LET res == runs[r].results[k]
      IN  /\ Len(res.items) = 2
          /\ res.ocs[1] \in {"timeout", "exit", "undecodable", "provider_error"}
          /\ res.ocs[2] = "ok"
          /\ StoredOnce(r, res.source_name, 1, res.items[1])
          /\ StoredOnce(r, res.source_name, 2, res.items[2])
          /\ RowFor(r, res.source_name, 2).summary_title = LLMAnswer.title

\* C7: whenever the summarizer fails for an item (tool missing, timeout,
\* non-zero exit or undecodable output) the stored item has the fallback
\* values: the summary is the truncated original content and the tags are
\* the plugin's categories.
C7_FailureGivesFallbackValues ==
    \A r \in RunIds :
      \A k \in 1..Len(runs[r].results) :
        LET res == runs[r].results[k]
        IN  \A j \in 1..Len(res.items) :
              res.ocs[j] \in {"missing", "timeout", "exit", "undecodable"} =>
                /\ RowsFor(r, res.source_name, j) # {}
                /\ RowFor(r, res.source_name, j).summary_content
                     = FallbackSummary(res.items[j].original_content)
                /\ RowFor(r, res.source_name, j).tags = res.items[j].categories

\* The tags the summarizer contributed to an item: the tags and the vendor
\* services of the ProcessingResult that was applied, none otherwise.
SummarizerTags(raw, oc) ==
    IF oc \in {"ok", "undecodable"}
    THEN Range(Analyze(raw, oc).tags) \cup Range(Analyze(raw, oc).vendor_services)
    ELSE {}

\* C23: the tags of every stored item are the plugin's categories and the
\* summarizer's tags in lower case (the categories alone when the
\* summarizer contributed none), each tag once.
C23_TagsLowercasedUnion ==
    \A r \in RunIds :
      \A k \in 1..Len(runs[r].results) :
        LET res == runs[r].results[k]
        IN  \A j \in 1..Len(res.items) :
              RowsFor(r, res.source_name, j) # {} =>
                LET tags == RowFor(r, res.source_name, j).tags
                IN  /\ Range(tags) = {Lower(t) : t \in Range(res.items[j].categories)
                                                     \cup SummarizerTags(res.items[j], res.ocs[j])}
                    /\ \A x, y \in 1..Len(tags) : tags[x] = tags[y] => x = y

\* C8: a storage failure while a plugin's batch is saved aborts the run:
\* collect_all raises instead of going on to the remaining plugins and
\* returning a summary.
C8_StorageFailureAbortsRun ==
    \A r \in RunIds :
      (\E k \in 1..Len(runs[r].results) : SaveFailed(runs[r].results[k])) =>
        runs[r].pc = "raised"

\* C9: a run that has returned has triggered a recluster if and only if its
\* total of new items is non-zero.
C9_ReclusterIffNewItems ==
    \A r \in RunIds : Done(r) => ((runs[r].total_new > 0) <=> (r \in reclusteredBy))

(***************************************************************************)
(* TopologyEngine: embed_and_store.                                        *)
(***************************************************************************)
ProcessedArticle(id, url, title, summary, tags, vendor, primary, domain, published, plugin) ==
    [external_id |-> id, url |-> url, original_title |-> title, summary |-> summary,
     tags |-> tags, vendor |-> vendor, is_primary_source |-> primary,
     tech_domain |-> domain, published_at |-> published, source_plugin |-> plugin]

\* The processed articles handed to embed_and_store, with distinct ids.
TopoItems ==
    <<ProcessedArticle("a", "u1", "t1", "s1", <<"compute">>, "AWS", TRUE, "serverless", 1, "aws-whatsnew"),
      ProcessedArticle("b", "u2", "t2", "s2", <<>>, "AWS", FALSE, "", 2, "aws-whatsnew"),
      ProcessedArticle("c", "u3", "t3", "s3", <<"ai", "ml">>, "GCP", TRUE, "ml", 2, "gcp-release-notes"),
      ProcessedArticle("d", "u4", "t4", "s4", <<"ai">>, "GCP", FALSE, "ml", 3, "gcp-release-notes"),
      ProcessedArticle("e", "u5", "t5", "s5", <<"db">>, "AWS", TRUE, "database", 3, "aws-whatsnew"),
      ProcessedArticle("f", "u6", "t6", "s6", <<"db">>, "GCP", TRUE, "database", 1, "gcp-release-notes"),
      ProcessedArticle("g", "u7", "t7", "s7", <<>>, "AWS", TRUE, "", 4, "aws-whatsnew"),
      ProcessedArticle("h", "u8", "t8", "s8", <<"ai">>, "GCP", FALSE, "ml", 0, "gcp-release-notes"),
      ProcessedArticle("i", "u9", "t9", "s9", <<"ai">>, "AWS", TRUE, "ml", 5, "aws-whatsnew"),
      ProcessedArticle("j", "u10", "t10", "s10", <<>>, "GCP", TRUE, "", 5, "gcp-release-notes"),
      ProcessedArticle("k", "u11", "t11", "s11", <<"db">>, "AWS", FALSE, "database", 6, "aws-whatsnew"),
      ProcessedArticle("l", "u12", "t12", "s12", <<"ai", "db">>, "GCP", TRUE, "ml", 2, "gcp-release-notes"),
      ProcessedArticle("m", "u13", "t13", "s13", <<>>, "AWS", TRUE, "", 4, "aws-whatsnew")>>

\* Another version of the article "a".
TopoItemAgain ==
    ProcessedArticle("a", "u0", "t0", "s0", <<"ai">>, "GCP", FALSE, "", 4, "gcp-release-notes")

\* model.encode(title + " " + summary), on the texts of TopoItems: a point
\* on a line.
Encode(title, summary) ==
    CASE title = "t1" -> 0
      [] title = "t2" -> 1
      [] title = "t3" -> 10
      [] title = "t4" -> 12
      [] title = "t5" -> 5
      [] title = "t6" -> 11
      [] title = "t7" -> 3
      [] title = "t8" -> 30
      [] title = "t9" -> 2
      [] title = "t10" -> 14
      [] title = "t11" -> 7
      [] title = "t12" -> 33
      [] title = "t13" -> 8
      [] OTHER -> 20

\* ",".join(tags): the tags with a "," between neighbours.
RECURSIVE JoinTags(_)
JoinTags(tags) ==
    IF Len(tags) = 0 THEN <<>>
    ELSE IF Len(tags) = 1 THEN tags
    ELSE <<tags[1], ",">> \o JoinTags(Tail(tags))

\* The record collection.add stores for an article.
Record(a) ==
    [id |-> a.external_id, embedding |-> Encode(a.original_title, a.summary),
     url |-> a.url, original_title |-> a.original_title, summary |-> a.summary,
     tags |-> JoinTags(a.tags), vendor |-> a.vendor, published_at |-> a.published_at,
     is_primary_source |-> a.is_primary_source, tech_domain |-> a.tech_domain,
     cluster_id |-> -1, source_plugin |-> a.source_plugin]

StoredIds == {collection[k].id : k \in 1..Len(collection)}

DistinctIds(batch) ==
    \A i, j \in 1..Len(batch) : batch[i].external_id = batch[j].external_id => i = j

\* embed_and_store up to collection.add: the articles it will add.  The
\* lookup of existing ids is skipped when collection.get raises.
NewArticlesIgnoresStore(batch, getOk) == batch

NewArticles(batch, getOk) ==
    LET existing_ids == IF getOk THEN StoredIds ELSE {}
    IN  SelectSeq(batch, LAMBDA a : a.external_id \notin existing_ids)

\* The articles of a batch that open a new id: not stored, and not
\* preceded in the batch by an article of the same id.
RECURSIVE FirstOfId(_, _)
FirstOfId(batch, seen) ==
    IF batch = <<>> THEN <<>>
    ELSE IF Head(batch).external_id \in seen THEN FirstOfId(Tail(batch), seen)
    ELSE <<Head(batch)>> \o FirstOfId(Tail(batch), seen \cup {Head(batch).external_id})

\* collection.add.  The collection holds one record per id; what add does
\* with an id repeated in the call or already stored is the library's
\* choice: strict, it raises and stores nothing; otherwise it keeps the
\* record it met first.
CollectionAdd(new_articles, strict) ==
    IF strict /\ (~DistinctIds(new_articles)
                   \/ \E k \in 1..Len(new_articles) : new_articles[k].external_id \in StoredIds)
    THEN [raised |-> TRUE, store |-> collection]
    ELSE [raised |-> FALSE,
          store |-> collection \o
             [k \in 1..Len(FirstOfId(new_articles, StoredIds))
                |-> Record(FirstOfId(new_articles, StoredIds)[k])]]

\* embed_and_store(articles).  lastIngest records the call: its number, its
\* argument, whether the lookup worked, what it returned and whether it
\* raised.
EmbedAndStore(batch, getOk, strict) ==
    /\ lastIngest.n < MaxIngests
    /\ LET new_articles == NewArticles(batch, getOk)
           added == CollectionAdd(new_articles, strict)
       IN  IF batch = <<>> \/ new_articles = <<>>
           THEN /\ collection' = collection
                /\ lastIngest' = [n |-> lastIngest.n + 1, batch |-> batch, getOk |-> getOk,
                                  returned |-> 0, raised |-> FALSE]
           ELSE /\ collection' = added.store
                /\ lastIngest' = [n |-> lastIngest.n + 1, batch |-> batch, getOk |-> getOk,
                                  returned |-> IF added.raised THEN 0 ELSE Len(new_articles),
                                  raised |-> added.raised]
    /\ UNCHANGED <<collectorVars, schedulerVars, arms, actionLogs, reclusteredBy, fitted,
                   lastAction, calls, lastFeed,
                   lastCall,
                   recl,
                   timeline>>

Batches == SeqsUpTo({TopoItems[1], TopoItems[2], TopoItemAgain}, MaxBatch)

NextIngest ==
    \E batch \in Batches, getOk \in BOOLEAN, strict \in BOOLEAN :
        EmbedAndStore(batch, getOk, strict)

SpecIngest == InitCli /\ [][NextIngest]_vars

C28_ExternalIdsUnique ==
    \A i, j \in 1..Len(articles) :
        articles[i].external_id = articles[j].external_id => i = j

(***************************************************************************)
(* TopologyEngine.recluster, the cluster arms and FeedSelector's           *)
(* record_action.                                                          *)
(***************************************************************************)
\* The label vectors clusterer.fit_predict can return for n points: -1 is
\* noise, the clusters are numbered from 0 without gaps, and each has at
\* least min_cluster_size points.
HdbscanLabels(n) ==
    {l \in [1..n -> -1..Max(-1, (n \div MinClusterSize) - 1)] :
        \A c \in 0..Max(-1, (n \div MinClusterSize) - 1) :
            \/ Cardinality({i \in 1..n : l[i] = c}) >= MinClusterSize
            \/ \A i \in 1..n : l[i] < c}

\* The labels recluster assigns to n records.
LabelsAlwaysHdbscan(n) == HdbscanLabels(n)

Labels(n) ==
    IF n < MinClusterSize THEN {[i \in 1..n |-> 0]} ELSE HdbscanLabels(n)

\* cluster_counts of recluster.
ClusterCounts(labels) ==
    [c \in {labels[i] : i \in DOMAIN labels} |->
        Cardinality({i \in DOMAIN labels : labels[i] = c})]

\* upsert_cluster_arm(cluster_id, article_count = count) on the table
\* cluster_arms: the row is inserted, or on conflict overwritten, with the
\* default alpha = 1.0 and beta = 1.0.
UpsertClusterArm(table, cluster_id, count) ==
    [c \in DOMAIN table \cup {cluster_id} |->
        IF c = cluster_id THEN [alpha |-> 1, beta |-> 1, article_count |-> count]
        ELSE table[c]]

\* The arms after recluster's loop over cluster_counts, noise skipped.
RECURSIVE SyncArms(_, _, _)
SyncArms(table, counts, todo) ==
    IF todo = {} THEN table
    ELSE LET c == CHOOSE x \in todo : TRUE
         IN  SyncArms(UpsertClusterArm(table, c, counts[c]), counts, todo \ {c})

\* recluster(): every record gets its label as cluster_id, every non-noise
\* cluster gets its arm upserted.  fit_predict is a function of the
\* embeddings: on the records of the last call it returns the labels of the
\* last call.
Recluster(labels) ==
    /\ collection # <<>>
    /\ fitted = Len(collection) =>
          labels = [k \in 1..Len(collection) |-> collection[k].cluster_id]
    /\ fitted' = Len(collection)
    /\ collection' = [k \in 1..Len(collection) |->
                         [collection[k] EXCEPT !.cluster_id = labels[k]]]
    /\ arms' = SyncArms(arms, ClusterCounts(labels),
                        DOMAIN ClusterCounts(labels) \ {-1})
    /\ reclusteredBy' = reclusteredBy \cup {"direct"}
    /\ UNCHANGED <<collectorVars, schedulerVars, actionLogs, lastIngest, lastAction,
                   calls, lastFeed,
                   lastCall,
                   recl,
                   timeline>>

\* update_arm_reward: alpha + 1 on success, beta + 1 otherwise, on the row of
\* the cluster if there is one.
UpdateArmRewardEveryRow(table, cluster_id, success) ==
    [c \in DOMAIN table |->
        IF success THEN [table[c] EXCEPT !.alpha = @ + 1]
        ELSE [table[c] EXCEPT !.beta = @ + 1]]

UpdateArmReward(table, cluster_id, success) ==
    [c \in DOMAIN table |->
        IF c # cluster_id THEN table[c]
        ELSE IF success THEN [table[c] EXCEPT !.alpha = @ + 1]
        ELSE [table[c] EXCEPT !.beta = @ + 1]]

\* The actions record_action is documented for, and the values a caller
\* can pass.
Actions == {"click", "bookmark", "skip"}

AnyAction == Actions \cup {"love"}

\* record_action with log_action moved before the lookup of the article.
RecordActionLogsFirst(article_id, action) ==
    /\ Len(actionLogs) < MaxActions
    /\ lastAction' = [article_id |-> article_id, action |-> action]
    /\ LET article == GetArticle(article_id)
           cluster_id == IF article = NoArticle THEN -1 ELSE article.cluster_id
       IN  /\ actionLogs' = Append(actionLogs,
                                [article_id |-> article_id, action |-> action,
                                 cluster_id |-> cluster_id])
           /\ arms' = UpdateArmReward(arms, cluster_id, action \in {"click", "bookmark"})
    /\ UNCHANGED <<collectorVars, schedulerVars, collection, reclusteredBy, lastIngest,
                   fitted, calls, lastFeed,
                   lastCall,
                   recl,
                   timeline>>

\* record_action(article_id, action): nothing for an unknown or a noise
\* article; otherwise the action is logged and the arm of the article's
\* cluster rewarded.
RecordAction(article_id, action) ==
    /\ Len(actionLogs) < MaxActions
    /\ lastAction' = [article_id |-> article_id, action |-> action]
    /\ LET article == GetArticle(article_id)
       IN  IF article = NoArticle \/ article.cluster_id = -1
           THEN UNCHANGED <<arms, actionLogs>>
           ELSE /\ actionLogs' = Append(actionLogs,
                                  [article_id |-> article_id, action |-> action,
                                   cluster_id |-> article.cluster_id])
                /\ arms' = UpdateArmReward(arms, article.cluster_id,
                                           action \in {"click", "bookmark"})
    /\ UNCHANGED <<collectorVars, schedulerVars, collection, reclusteredBy, lastIngest,
                   fitted, calls, lastFeed,
                   lastCall,
                   recl,
                   timeline>>

\* The collection after the first n of TopoItems have been stored.
Stored(n) == [k \in 1..n |-> Record(TopoItems[k])]

\* A process whose collection holds the articles of earlier calls of
\* embed_and_store, before any clustering.
InitBandit ==
    /\ articles = <<>>
    /\ sources = [p \in Plugins |-> [fetch_status |-> "absent", fetched |-> FALSE]]
    /\ runs = [r \in RunIds |-> IdleRun]
    /\ lastOk = [p \in Plugins |-> NoOutput]
    /\ schedRunning = FALSE
    /\ startupPending = FALSE
    /\ \E n \in 0..MaxStore : collection = Stored(n)
    /\ arms = <<>>
    /\ actionLogs = <<>>
    /\ reclusteredBy = {}
    /\ lastIngest = [n |-> 0, batch |-> <<>>, getOk |-> TRUE, returned |-> 0,
                     raised |-> FALSE]
    /\ fitted = 0
    /\ lastAction = [article_id |-> NoneStr, action |-> NoneStr]
    /\ calls = [p \in CallerIds |-> IdleCall]
    /\ lastFeed = NoFeed
    /\ lastCall = NoCall
    /\ recl = IdleRecluster
    /\ timeline = NoTimeline

NextBandit ==
    \/ \E labels \in Labels(Len(collection)) : Recluster(labels)
    \/ \E k \in {1, MaxStore, MaxStore + 1}, action \in AnyAction :
          RecordAction(TopoItems[k].external_id, action)

SpecBandit == InitBandit /\ [][NextBandit]_vars

\* A step of record_action; a call that repeats the arguments of the call
\* before it and changes nothing is no step.
RecordActionStep == lastAction' # lastAction \/ actionLogs' # actionLogs

\* The cluster of the article record_action was called for, -1 for an
\* article that is not stored, read before the call.
CalledCluster ==
    IF GetArticle(lastAction'.article_id) = NoArticle THEN -1
    ELSE GetArticle(lastAction'.article_id).cluster_id

\* C12: record_action with click, bookmark or skip on a stored article of a
\* cluster c other than -1 adds 1 to alpha of arm c for click and bookmark
\* and 1 to beta for skip, leaves the other value and every other arm as
\* they are, and appends one row (article, action, c) to action_logs.
C12_RecordActionRewardsOneArm ==
    [][(RecordActionStep /\ CalledCluster # -1 /\ lastAction'.action \in Actions) =>
         LET c == CalledCluster
             success == lastAction'.action \in {"click", "bookmark"}
         IN  /\ c \in DOMAIN arms
             /\ DOMAIN arms' = DOMAIN arms
             /\ arms'[c].alpha = arms[c].alpha + (IF success THEN 1 ELSE 0)
             /\ arms'[c].beta = arms[c].beta + (IF success THEN 0 ELSE 1)
             /\ arms'[c].article_count = arms[c].article_count
             /\ \A d \in DOMAIN arms \ {c} : arms'[d] = arms[d]
             /\ actionLogs' = Append(actionLogs,
                                  [article_id |-> lastAction'.article_id,
                                   action |-> lastAction'.action, cluster_id |-> c])]_vars

\* C12 witness: with the arms of clusters 0 and 1 created at (1, 1),
\* MaxActions clicks on articles of cluster 0 have been recorded: arm 0 is
\* (1 + MaxActions, 1), arm 1 is (1, 1), and action_logs has MaxActions rows.
C12_Witness ==
    /\ DOMAIN arms = {0, 1}
    /\ arms[0].alpha = 1 + MaxActions /\ arms[0].beta = 1
    /\ arms[1].alpha = 1 /\ arms[1].beta = 1
    /\ Len(actionLogs) = MaxActions
    /\ \A k \in 1..Len(actionLogs) :
         actionLogs[k].action = "click" /\ actionLogs[k].cluster_id = 0

\* C13: record_action with an action other than click, bookmark and skip
\* adds no row to action_logs and changes no arm.
C13_UnknownActionRejected ==
    [][(RecordActionStep /\ lastAction'.action \notin Actions) =>
         (actionLogs' = actionLogs /\ arms' = arms)]_vars

\* C14: record_action for an article that is not stored, or for a stored
\* article whose cluster_id is -1, adds no row to action_logs and changes no
\* arm and no record.
C14_UnknownOrNoiseIsNoOp ==
    [][(RecordActionStep /\ CalledCluster = -1) =>
         (actionLogs' = actionLogs /\ arms' = arms /\ collection' = collection)]_vars

\* C14 witness: after a clustering that left the article "a" as noise and
\* gave cluster 0 an arm, record_action has been called for "a".
C14_Witness ==
    /\ lastAction.article_id = "a"
    /\ GetArticle("a") # NoArticle
    /\ GetArticle("a").cluster_id = -1
    /\ fitted > 0
    /\ 0 \in DOMAIN arms
    /\ actionLogs = <<>>


\* C10: no step changes the alpha or the beta of an arm that exists to a
\* smaller value, and no step removes an arm.
C10_ArmsNeverDecrease ==
    [][\A c \in DOMAIN arms :
          /\ c \in DOMAIN arms'
          /\ arms'[c].alpha >= arms[c].alpha
          /\ arms'[c].beta >= arms[c].beta]_vars

(***************************************************************************)
(* The topology on its own: articles are stored and clustered.             *)
(***************************************************************************)
\* The batches handed to embed_and_store: runs of neighbours of TopoItems.
Slices ==
    {SubSeq(TopoItems, i, j) : i \in 1..MaxStore, j \in 1..MaxStore} \ {<<>>}

NextTopology ==
    \/ \E batch \in {b \in Slices : Len(b) <= MaxBatch}, getOk \in BOOLEAN, strict \in BOOLEAN :
          EmbedAndStore(batch, getOk, strict)
    \/ \E labels \in Labels(Len(collection)) : Recluster(labels)

SpecTopology == InitCli /\ [][NextTopology]_vars

\* The number of stored records whose cluster_id is c.
ClusterSize(c) == Cardinality({k \in 1..Len(collection) : collection[k].cluster_id = c})

\* recluster has returned and nothing has been stored since.
Reclustered == fitted > 0 /\ fitted = Len(collection)

\* C11: when recluster has returned, every row of cluster_arms has as
\* article_count the number of stored records of its cluster.
C11_ArticleCountMatchesStore ==
    Reclustered => \A c \in DOMAIN arms : arms[c].article_count = ClusterSize(c)

\* C20: when recluster has returned from clustering fewer records than
\* min_cluster_size, every record has cluster_id 0 and cluster_arms holds
\* the arm of cluster 0 and no other.
C20_FewItemsOneCluster ==
    (Reclustered /\ fitted < MinClusterSize) =>
        /\ \A k \in 1..Len(collection) : collection[k].cluster_id = 0
        /\ DOMAIN arms = {0}
        /\ arms[0].article_count = Len(collection)

\* C20 witness: a store below min_cluster_size has been clustered a second
\* time, after a record was added to it.
C20_Witness ==
    /\ Reclustered
    /\ fitted < MinClusterSize
    /\ fitted > 1
    /\ lastIngest.n > 1
    /\ 0 \in DOMAIN arms

(***************************************************************************)
(* record_action called by several callers at once: each call is a lookup  *)
(* of the article, the transaction of log_action and the transaction of    *)
(* update_arm_reward, and the calls interleave between these.              *)
(***************************************************************************)
\* record_action up to the lookup: the call ends here for an article that
\* is unknown or noise.
LookupArticle(p, article_id, action) ==
    /\ calls[p].pc = "idle"
    /\ LET article == GetArticle(article_id)
           found == article # NoArticle /\ article.cluster_id # -1
       IN  calls' = [calls EXCEPT ![p] =
               [pc |-> IF found THEN "found" ELSE "done",
                article_id |-> article_id, action |-> action,
                cluster_id |-> IF found THEN article.cluster_id ELSE -1,
                overlapped |-> FALSE]]
    /\ UNCHANGED <<collectorVars, schedulerVars, collection, arms, actionLogs,
                   reclusteredBy, lastIngest, fitted, lastAction, lastFeed,
                   lastCall,
                   recl,
                   timeline>>

\* log_action(article_id, action, cluster_id), committed.
LogAction(p) ==
    /\ calls[p].pc = "found"
    /\ actionLogs' = Append(actionLogs,
                            [article_id |-> calls[p].article_id,
                             action |-> calls[p].action,
                             cluster_id |-> calls[p].cluster_id])
    /\ calls' = [calls EXCEPT ![p].pc = "logged",
                              ![p].overlapped =
                                  \E q \in CallerIds \ {p} :
                                      calls[q].pc \in {"found", "logged"}]
    /\ UNCHANGED <<collectorVars, schedulerVars, collection, arms, reclusteredBy,
                   lastIngest, fitted, lastAction, lastFeed,
                   lastCall,
                   recl,
                   timeline>>

\* update_arm_reward that gives up when another call is between its log
\* and its update.
RewardArmUnlessBusy(p) ==
    /\ calls[p].pc = "logged"
    /\ arms' = IF \E q \in CallerIds \ {p} : calls[q].pc = "logged"
               THEN arms
               ELSE UpdateArmReward(arms, calls[p].cluster_id,
                                    calls[p].action \in {"click", "bookmark"})
    /\ calls' = [calls EXCEPT ![p].pc = "done"]
    /\ UNCHANGED <<collectorVars, schedulerVars, collection, actionLogs, reclusteredBy,
                   lastIngest, fitted, lastAction, lastFeed,
                   lastCall,
                   recl,
                   timeline>>

\* update_arm_reward run before log_action.
RewardArmBeforeLog(p) ==
    /\ calls[p].pc = "found"
    /\ arms' = UpdateArmReward(arms, calls[p].cluster_id,
                               calls[p].action \in {"click", "bookmark"})
    /\ calls' = [calls EXCEPT ![p].pc = "crashed"]
    /\ UNCHANGED <<collectorVars, schedulerVars, collection, actionLogs, reclusteredBy,
                   lastIngest, fitted, lastAction, lastFeed,
                   lastCall,
                   recl,
                   timeline>>

\* update_arm_reward(cluster_id, success): one UPDATE statement, committed.
RewardArm(p) ==
    /\ calls[p].pc = "logged"
    /\ arms' = UpdateArmReward(arms, calls[p].cluster_id,
                               calls[p].action \in {"click", "bookmark"})
    /\ calls' = [calls EXCEPT ![p].pc = "done"]
    /\ UNCHANGED <<collectorVars, schedulerVars, collection, actionLogs, reclusteredBy,
                   lastIngest, fitted, lastAction, lastFeed,
                   lastCall,
                   recl,
                   timeline>>

\* A store that has been clustered once: every cluster has its arm at (1, 1).
InitActions ==
    /\ articles = <<>>
    /\ sources = [p \in Plugins |-> [fetch_status |-> "absent", fetched |-> FALSE]]
    /\ runs = [r \in RunIds |-> IdleRun]
    /\ lastOk = [p \in Plugins |-> NoOutput]
    /\ schedRunning = FALSE
    /\ startupPending = FALSE
    /\ \E labels \in Labels(MaxStore) :
          /\ collection = [k \in 1..MaxStore |->
                              [Stored(MaxStore)[k] EXCEPT !.cluster_id = labels[k]]]
          /\ arms = SyncArms(<<>>, ClusterCounts(labels),
                             DOMAIN ClusterCounts(labels) \ {-1})
    /\ actionLogs = <<>>
    /\ reclusteredBy = {"direct"}
    /\ lastIngest = [n |-> 0, batch |-> <<>>, getOk |-> TRUE, returned |-> 0,
                     raised |-> FALSE]
    /\ fitted = MaxStore
    /\ lastAction = [article_id |-> NoneStr, action |-> NoneStr]
    /\ calls = [p \in CallerIds |-> IdleCall]
    /\ lastFeed = NoFeed
    /\ lastCall = NoCall
    /\ recl = IdleRecluster
    /\ timeline = NoTimeline

NextActions ==
    \/ \E p \in CallerIds, k \in {1, MaxStore, MaxStore + 1}, action \in Actions :
          LookupArticle(p, TopoItems[k].external_id, action)
    \/ \E p \in CallerIds : LogAction(p)
    \/ \E p \in CallerIds : RewardArm(p)

SpecActions == InitActions /\ [][NextActions]_vars

\* The callers whose call targeted cluster c with this success flag.
CallsOn(c, success) ==
    {p \in CallerIds : /\ calls[p].pc # "idle"
                       /\ calls[p].cluster_id = c
                       /\ (calls[p].action \in {"click", "bookmark"}) = success}

AllCallsReturned == \A p \in CallerIds : calls[p].pc = "done"

\* C15: when calls of record_action that ran one after the other or side by
\* side have all returned, every arm has gained exactly one alpha per call on
\* its cluster with click or bookmark and one beta per call on its cluster
\* with skip, whatever the order of the calls' steps: no increment is lost.
C15_ConcurrentRewardsAllCount ==
    AllCallsReturned =>
        \A c \in DOMAIN arms :
            /\ arms[c].alpha = 1 + Cardinality(CallsOn(c, TRUE))
            /\ arms[c].beta = 1 + Cardinality(CallsOn(c, FALSE))

\* C15 witness: every caller has recorded a click on cluster 0, the calls
\* overlapped, and arm 0 has one alpha per caller.
C15_Witness ==
    /\ AllCallsReturned
    /\ CallsOn(0, TRUE) = CallerIds
    /\ \E p \in CallerIds : calls[p].overlapped
    /\ arms[0].alpha = 1 + MaxCallers
    /\ arms[0].beta = 1

\* The process of a call of record_action dies between two of its
\* transactions: what is committed stays, the rest of the call never runs.
Crash(p) ==
    /\ calls[p].pc \in {"found", "logged"}
    /\ calls' = [calls EXCEPT ![p].pc = "crashed"]
    /\ UNCHANGED <<collectorVars, schedulerVars, collection, arms, actionLogs,
                   reclusteredBy, lastIngest, fitted, lastAction, lastFeed,
                   lastCall,
                   recl,
                   timeline>>

\* Calls of record_action that may crash, and recluster between their steps.
NextCrash ==
    \/ \E p \in CallerIds, k \in {1, MaxStore}, action \in {"click", "skip"} :
          LookupArticle(p, TopoItems[k].external_id, action)
    \/ \E p \in CallerIds : LogAction(p)
    \/ \E p \in CallerIds : RewardArm(p)
    \/ \E p \in CallerIds : Crash(p)
    \/ \E labels \in Labels(Len(collection)) : Recluster(labels)

SpecCrash == InitActions /\ [][NextCrash]_vars

\* The rows of action_logs with this cluster_id.
LogRows(c) == {i \in 1..Len(actionLogs) : actionLogs[i].cluster_id = c}

\* C25: the row of action_logs is committed before the arm is updated: in
\* every state, also after a crash inside record_action, the increments an
\* arm holds, (alpha - 1) + (beta - 1), are at most the rows of action_logs
\* with its cluster_id.
C25_ArmNeverAheadOfLog ==
    \A c \in DOMAIN arms :
        (arms[c].alpha - 1) + (arms[c].beta - 1) <= Cardinality(LogRows(c))

\* C25 witness: the only call made crashed after its row was committed; the
\* arm of its cluster is still at (1, 1).
C25_Witness ==
    \E p \in CallerIds :
        /\ calls[p].pc = "crashed"
        /\ \A q \in CallerIds \ {p} : calls[q].pc = "idle"
        /\ Len(actionLogs) = 1
        /\ actionLogs[1].cluster_id = calls[p].cluster_id
        /\ calls[p].cluster_id \in DOMAIN arms
        /\ arms[calls[p].cluster_id].alpha = 1
        /\ arms[calls[p].cluster_id].beta = 1

(***************************************************************************)
(* TopologyEngine's reads and FeedSelector.generate_feed.                  *)
(***************************************************************************)
\* {"id": ids[i], **metadatas[i]} for every record, in the collection's
\* order.
AllArticles ==
    [k \in 1..Len(collection) |->
        [f \in DOMAIN collection[k] \ {"embedding"} |-> collection[k][f]]]

\* list.sort(key = published_at, reverse = True): stable, so articles of
\* equal published_at keep their order.
RECURSIVE SortOldestFirst(_)
SortOldestFirst(arts) ==
    IF arts = <<>> THEN <<>>
    ELSE LET rest == SortOldestFirst(SubSeq(arts, 1, Len(arts) - 1))
             x == arts[Len(arts)]
         IN  SelectSeq(rest, LAMBDA a : a.published_at <= x.published_at)
             \o <<x>> \o
             SelectSeq(rest, LAMBDA a : a.published_at > x.published_at)

RECURSIVE SortNewestFirst(_)
SortNewestFirst(arts) ==
    IF arts = <<>> THEN <<>>
    ELSE LET rest == SortNewestFirst(SubSeq(arts, 1, Len(arts) - 1))
             x == arts[Len(arts)]
         IN  SelectSeq(rest, LAMBDA a : a.published_at >= x.published_at)
             \o <<x>> \o
             SelectSeq(rest, LAMBDA a : a.published_at < x.published_at)

\* get_cluster_articles(cluster_id, n): the n newest articles of the cluster.
GetClusterArticles(cluster_id, n) ==
    Take(SortNewestFirst(SelectSeq(AllArticles, LAMBDA a : a.cluster_id = cluster_id)), n)

\* _filter_articles: the vendor is compared in lower case; None and the
\* empty string are no filter.
FilterArticlesKeepsAll(arts, vendor_filter, primary_only) == arts

FilterArticles(arts, vendor_filter, primary_only) ==
    LET byVendor == IF vendor_filter \notin {NoneStr, ""}
                    THEN SelectSeq(arts, LAMBDA a : Lower(a.vendor) = Lower(vendor_filter))
                    ELSE arts
    IN  IF primary_only THEN SelectSeq(byVendor, LAMBDA a : a.is_primary_source)
        ELSE byVendor

\* The positions of the cluster's records in the collection, ascending.
RECURSIVE ClusterIndices(_, _)
ClusterIndices(cluster_id, k) ==
    IF k > Len(collection) THEN <<>>
    ELSE (IF collection[k].cluster_id = cluster_id THEN <<k>> ELSE <<>>)
         \o ClusterIndices(cluster_id, k + 1)

\* The distance of record k from the centroid of the records at idx, times
\* the number of those records (the embeddings are points on a line).
Distance(idx, k) ==
    LET total == LET RECURSIVE Sum(_)
                     Sum(i) == IF i > Len(idx) THEN 0
                               ELSE collection[idx[i]].embedding + Sum(i + 1)
                 IN  Sum(1)
        d == Len(idx) * collection[k].embedding - total
    IN  IF d < 0 THEN -d ELSE d

\* np.argsort(distances): the indices by ascending distance, equal
\* distances in index order.
RECURSIVE ArgSort(_, _)
ArgSort(idx, n) ==
    IF n = 0 THEN <<>>
    ELSE LET rest == ArgSort(idx, n - 1)
             x == idx[n]
         IN  SelectSeq(rest, LAMBDA k : Distance(idx, k) <= Distance(idx, x))
             \o <<x>> \o
             SelectSeq(rest, LAMBDA k : Distance(idx, k) > Distance(idx, x))

Reverse(s) == [i \in 1..Len(s) |-> s[Len(s) + 1 - i]]

\* get_boundary_articles(cluster_id, n): the articles at
\* np.argsort(distances)[-n:][::-1], the farthest from the centroid first;
\* the slice [-n:] with n = 0 is the whole array.
GetBoundaryArticles(cluster_id, n) ==
    LET idx == ClusterIndices(cluster_id, 1)
        order == ArgSort(idx, Len(idx))
        last == IF n = 0 THEN order
                ELSE SubSeq(order, Len(order) - Min(n, Len(order)) + 1, Len(order))
    IN  [i \in 1..Len(last) |-> AllArticles[Reverse(last)[i]]]

\* _article_to_feed_item: tags_str.split(",") without the empty pieces.
ArticleToFeedItem(article) ==
    [id |-> article.id, url |-> article.url, title |-> article.original_title,
     summary |-> article.summary,
     tags |-> SelectSeq(article.tags, LAMBDA t : t # "," /\ t # ""),
     vendor |-> article.vendor, is_primary_source |-> article.is_primary_source,
     cluster_id |-> article.cluster_id, published_at |-> article.published_at,
     source_plugin |-> article.source_plugin]

FeedItems(arts) == [i \in 1..Len(arts) |-> ArticleToFeedItem(arts[i])]

\* filtered[offset : offset + n].
Page(filtered, offset, n) ==
    SubSeq(filtered, offset + 1, Min(offset + n, Len(filtered)))

\* _get_latest_articles: all articles, newest first, filtered, then the
\* page.
GetLatestArticles(limit, vendor_filter, primary_only, offset) ==
    FeedItems(Page(FilterArticles(SortNewestFirst(AllArticles), vendor_filter, primary_only),
                   offset, limit))

\* get_all_cluster_arms: the cluster ids, ORDER BY cluster_id.
RECURSIVE ArmIds(_)
ArmIds(S) ==
    IF S = {} THEN <<>>
    ELSE LET c == CHOOSE x \in S : \A y \in S : x <= y
         IN  <<c>> \o ArmIds(S \ {c})

\* sorted(sampled_values.items(), key = lambda x: -x[1]): by descending
\* sampled value, equal values in the order of the arms.
RECURSIVE SortedClusters(_, _)
SortedClusters(ids, sampled) ==
    IF ids = <<>> THEN <<>>
    ELSE LET rest == SortedClusters(SubSeq(ids, 1, Len(ids) - 1), sampled)
             x == ids[Len(ids)]
         IN  SelectSeq(rest, LAMBDA c : sampled[c] >= sampled[x])
             \o <<x>> \o
             SelectSeq(rest, LAMBDA c : sampled[c] < sampled[x])

\* The loop over sorted_clusters that fills the main slots.
RECURSIVE FillMain(_, _, _, _, _, _, _)
FillMain(clusters, feed_items, remaining_main, per_cluster, vendor_filter, primary_only, offset) ==
    IF clusters = <<>> \/ remaining_main <= 0 THEN feed_items
    ELSE LET n_from_cluster == Min(per_cluster, remaining_main)
             found == GetClusterArticles(Head(clusters), n_from_cluster + offset)
             filtered == FilterArticles(found, vendor_filter, primary_only)
             page == Page(filtered, offset, n_from_cluster)
         IN  FillMain(Tail(clusters), feed_items \o page, remaining_main - Len(page),
                      per_cluster, vendor_filter, primary_only, offset)

\* The inner loop of the serendipity part: the articles of one cluster's
\* boundary that are not in the feed yet, while slots are left.
RECURSIVE TakeUnseen(_, _, _)
TakeUnseen(filtered, feed_items, slots) ==
    IF filtered = <<>> \/ slots <= 0 THEN [items |-> feed_items, slots |-> slots]
    ELSE IF \E i \in 1..Len(feed_items) : feed_items[i].id = Head(filtered).id
         THEN TakeUnseen(Tail(filtered), feed_items, slots)
         ELSE TakeUnseen(Tail(filtered), Append(feed_items, Head(filtered)), slots - 1)

\* The loop over low_clusters that fills the serendipity slots.
RECURSIVE FillSerendipity(_, _, _, _, _)
FillSerendipity(clusters, feed_items, slots, vendor_filter, primary_only) ==
    IF clusters = <<>> \/ slots <= 0 THEN feed_items
    ELSE LET boundary == GetBoundaryArticles(Head(clusters), BoundaryCount)
             filtered == FilterArticles(boundary, vendor_filter, primary_only)
             taken == TakeUnseen(filtered, feed_items, slots)
         IN  FillSerendipity(Tail(clusters), taken.items, taken.slots,
                             vendor_filter, primary_only)

\* sorted_clusters[-max(3, len(sorted_clusters) // 2):].
LowClusters(sorted_clusters) ==
    LET k == Max(LowClustersMin, Len(sorted_clusters) \div 2)
    IN  SubSeq(sorted_clusters, Max(1, Len(sorted_clusters) - k + 1), Len(sorted_clusters))

\* generate_feed(limit, vendor_filter, primary_only, offset), with sampled
\* the values np.random.beta returned for the arms.
GenerateFeed(limit_arg, vendor_filter, primary_only, offset, sampled) ==
    LET limit == IF limit_arg <= 0 THEN FeedDefaultLimit ELSE limit_arg
        sorted_clusters == SortedClusters(ArmIds(DOMAIN arms), sampled)
        main_slots == limit - SerendipitySlots
        articles_per_cluster == Max(1, main_slots \div Max(Len(sorted_clusters), 1))
        main == FillMain(sorted_clusters, <<>>, main_slots, articles_per_cluster,
                         vendor_filter, primary_only, offset)
        all == IF SerendipitySlots > 0 /\ Len(sorted_clusters) > 1
               THEN FillSerendipity(LowClusters(sorted_clusters), main, SerendipitySlots,
                                    vendor_filter, primary_only)
               ELSE main
    IN  IF DOMAIN arms = {}
        THEN GetLatestArticles(limit, vendor_filter, primary_only, offset)
        ELSE Take(FeedItems(all), limit)

(***************************************************************************)
(* A process that ingests, clusters and serves the feed.                   *)
(***************************************************************************)
\* The arguments generate_feed is called with.
Limits == {0, 1, 3, 10}
Offsets == {0, 1}
VendorFilters == {NoneStr, "", "aws", "Azure"}

\* A call of generate_feed; sampled is what np.random.beta returned for the
\* arms, as one of SampleLevels values.
GenerateFeedCall(limit, vendor_filter, primary_only, offset, sampled) ==
    /\ lastFeed.n < MaxFeeds
    /\ lastFeed' = [n |-> lastFeed.n + 1, limit |-> limit, vendor_filter |-> vendor_filter,
                    primary_only |-> primary_only, offset |-> offset, sampled |-> sampled,
                    items |-> GenerateFeed(limit, vendor_filter, primary_only, offset, sampled)]
    /\ UNCHANGED <<collectorVars, schedulerVars, collection, arms, actionLogs, reclusteredBy,
                   lastIngest, fitted, lastAction, calls,
                   lastCall,
                   recl,
                   timeline>>

\* Some of the label vectors of Labels(n): c clusters of equal size up to
\* one, no cluster at all, and one cluster of min_cluster_size records with
\* the rest noise.
FeedLabels(n) ==
    IF n < MinClusterSize THEN Labels(n)
    ELSE {[k \in 1..n |-> (k - 1) % c] : c \in 1..(n \div MinClusterSize)}
         \cup {[k \in 1..n |-> -1]}
         \cup {[k \in 1..n |-> IF k <= MinClusterSize THEN 0 ELSE -1]}

\* The batch that completes the store.
LastBatch == SubSeq(TopoItems, MaxFeedStore - 2, MaxFeedStore)

InitFeed ==
    /\ articles = <<>>
    /\ sources = [p \in Plugins |-> [fetch_status |-> "absent", fetched |-> FALSE]]
    /\ runs = [r \in RunIds |-> IdleRun]
    /\ lastOk = [p \in Plugins |-> NoOutput]
    /\ schedRunning = FALSE
    /\ startupPending = FALSE
    /\ \E n \in {0, 2, MaxFeedStore - 3, MaxFeedStore} : collection = Stored(n)
    /\ arms = <<>>
    /\ actionLogs = <<>>
    /\ reclusteredBy = {}
    /\ lastIngest = [n |-> 0, batch |-> <<>>, getOk |-> TRUE, returned |-> 0,
                     raised |-> FALSE]
    /\ fitted = 0
    /\ lastAction = [article_id |-> NoneStr, action |-> NoneStr]
    /\ calls = [p \in CallerIds |-> IdleCall]
    /\ lastFeed = NoFeed
    /\ lastCall = NoCall
    /\ recl = IdleRecluster
    /\ timeline = NoTimeline

NextFeed ==
    \/ EmbedAndStore(LastBatch, TRUE, FALSE)
    \/ \E labels \in FeedLabels(Len(collection)) : Recluster(labels)
    \/ \E limit \in Limits, vendor_filter \in VendorFilters, primary_only \in BOOLEAN,
          offset \in Offsets, sampled \in [DOMAIN arms -> 1..SampleLevels] :
          GenerateFeedCall(limit, vendor_filter, primary_only, offset, sampled)

SpecFeed == InitFeed /\ [][NextFeed]_vars

\* A step that is a call of generate_feed.
GenerateFeedStep == lastFeed'.n # lastFeed.n

\* The positions of the stored records that pass the filters.
Passing(vendor_filter, primary_only) ==
    {k \in 1..Len(collection) :
        /\ vendor_filter \in {NoneStr, ""}
              \/ Lower(collection[k].vendor) = Lower(vendor_filter)
        /\ primary_only => collection[k].is_primary_source}

DistinctItems(items) ==
    \A i, j \in 1..Len(items) : items[i].id = items[j].id => i = j

\* C16: whatever the arms, the sampled values, the offset and the filters,
\* a call of generate_feed with limit >= 1 returns at most limit items, no
\* two of them with the same id, and with a vendor filter given (a vendor's
\* name, compared without regard to case) every item is of that vendor.
C16_FeedPageBounds ==
    (lastFeed.n > 0 /\ lastFeed.limit >= 1) =>
        /\ Len(lastFeed.items) <= lastFeed.limit
        /\ DistinctItems(lastFeed.items)
        /\ lastFeed.vendor_filter \notin {NoneStr, ""} =>
              \A i \in 1..Len(lastFeed.items) :
                  Lower(lastFeed.items[i].vendor) = Lower(lastFeed.vendor_filter)

\* C16 witness: a call with three arms, the vendor filter "aws" and limit 3
\* returned a full page, its last item from the serendipity part.
C16_Witness ==
    /\ lastFeed.n > 0
    /\ Cardinality(DOMAIN lastFeed.sampled) = 3
    /\ lastFeed.vendor_filter = "aws"
    /\ lastFeed.limit = 3
    /\ Len(lastFeed.items) = 3
    /\ lastFeed.items[1].cluster_id = lastFeed.items[3].cluster_id

\* The clusters whose sampled value is among the two lowest.
TwoLowest(sampled) ==
    {c \in DOMAIN sampled :
        Cardinality({d \in DOMAIN sampled : sampled[d] < sampled[c]}) < 2}

\* C17: with three clusters, pairwise different sampled values, no filter,
\* offset 0 and limit 10, generate_feed returns 10 items, and the last
\* serendipity_slots of them come from the two clusters with the lowest
\* sampled values.
C17_SerendipitySlotGuarantee ==
    [][(/\ GenerateFeedStep
        /\ DOMAIN arms = {0, 1, 2}
        /\ \A c \in DOMAIN arms : ClusterSize(c) >= MinClusterSize
        /\ Len(collection) >= 10
        /\ \A k \in 1..Len(collection) : collection[k].cluster_id \in DOMAIN arms
        /\ lastFeed'.limit = 10
        /\ lastFeed'.offset = 0
        /\ lastFeed'.vendor_filter = NoneStr
        /\ ~lastFeed'.primary_only
        /\ \A c, d \in DOMAIN arms : lastFeed'.sampled[c] = lastFeed'.sampled[d] => c = d)
       => /\ Len(lastFeed'.items) = 10
          /\ \A i \in (10 - SerendipitySlots + 1)..10 :
                lastFeed'.items[i].cluster_id \in TwoLowest(lastFeed'.sampled)]_vars

\* C30: with at least one arm, no filter, offset 0 and at least limit
\* stored items in the clusters that have arms, generate_feed returns
\* exactly limit items.
C30_FullPageWhenEnoughItems ==
    [][(/\ GenerateFeedStep
        /\ DOMAIN arms # {}
        /\ lastFeed'.limit >= 1
        /\ lastFeed'.offset = 0
        /\ lastFeed'.vendor_filter = NoneStr
        /\ ~lastFeed'.primary_only
        /\ Cardinality({k \in 1..Len(collection) : collection[k].cluster_id \in DOMAIN arms})
              >= lastFeed'.limit)
       => Len(lastFeed'.items) = lastFeed'.limit]_vars

\* C18: with no arm, generate_feed(limit, filters, offset) returns the
\* items at the positions offset .. offset + limit - 1 of the stored items
\* that pass the filters, in descending order of published_at: as many as
\* there are at those positions, each a stored item that passes, no item
\* twice, and the item at position p has fewer than p passing items newer
\* than it and at least p that are not older.
C18_LatestWhenNoArms ==
    [][(GenerateFeedStep /\ DOMAIN arms = {} /\ lastFeed'.limit >= 1) =>
          LET f == lastFeed'
              P == Passing(f.vendor_filter, f.primary_only)
          IN  /\ Len(f.items) = Max(0, Min(f.limit, Cardinality(P) - f.offset))
              /\ DistinctItems(f.items)
              /\ \A i \in 1..Len(f.items) :
                    \E k \in P :
                        /\ collection[k].id = f.items[i].id
                        /\ collection[k].published_at = f.items[i].published_at
                        /\ Cardinality({j \in P : collection[j].published_at
                                                     > collection[k].published_at})
                              < f.offset + i
                        /\ Cardinality({j \in P : collection[j].published_at
                                                     >= collection[k].published_at})
                              >= f.offset + i]_vars

\* C18 witness: with no arm and the whole store in place, a call with the
\* vendor filter "aws", offset 1 and limit 3 returned three items, the last
\* older than the first.
C18_Witness ==
    /\ lastFeed.n > 0
    /\ arms = <<>>
    /\ Len(collection) = MaxFeedStore
    /\ lastFeed.vendor_filter = "aws"
    /\ lastFeed.offset = 1
    /\ lastFeed.limit = 3
    /\ Len(lastFeed.items) = 3
    /\ lastFeed.items[3].published_at < lastFeed.items[1].published_at

(***************************************************************************)
(* TopologyEngine's reads, called for any cluster and any n.               *)
(***************************************************************************)
MaxN == 4

ReadClusters == 0..2

\* A call of get_cluster_articles(cluster_id, n).
GetClusterArticlesCall(cluster_id, n) ==
    /\ lastCall' = [op |-> "get_cluster_articles", args |-> <<cluster_id, n>>,
                    result |-> GetClusterArticles(cluster_id, n)]
    /\ UNCHANGED <<collectorVars, schedulerVars, collection, arms, actionLogs, reclusteredBy,
                   lastIngest, fitted, lastAction, calls, lastFeed,
                   recl,
                   timeline>>

\* A call of get_boundary_articles(cluster_id, n).
GetBoundaryArticlesCall(cluster_id, n) ==
    /\ lastCall' = [op |-> "get_boundary_articles", args |-> <<cluster_id, n>>,
                    result |-> GetBoundaryArticles(cluster_id, n)]
    /\ UNCHANGED <<collectorVars, schedulerVars, collection, arms, actionLogs, reclusteredBy,
                   lastIngest, fitted, lastAction, calls, lastFeed,
                   recl,
                   timeline>>

\* A process whose collection holds the articles of earlier calls of
\* embed_and_store, made with TopoItems in ascending or in descending order.
InitReads ==
    /\ articles = <<>>
    /\ sources = [p \in Plugins |-> [fetch_status |-> "absent", fetched |-> FALSE]]
    /\ runs = [r \in RunIds |-> IdleRun]
    /\ lastOk = [p \in Plugins |-> NoOutput]
    /\ schedRunning = FALSE
    /\ startupPending = FALSE
    /\ \E n \in {0, 2, MaxStore} : collection \in {Stored(n), Reverse(Stored(n))}
    /\ arms = <<>>
    /\ actionLogs = <<>>
    /\ reclusteredBy = {}
    /\ lastIngest = [n |-> 0, batch |-> <<>>, getOk |-> TRUE, returned |-> 0,
                     raised |-> FALSE]
    /\ fitted = 0
    /\ lastAction = [article_id |-> NoneStr, action |-> NoneStr]
    /\ calls = [p \in CallerIds |-> IdleCall]
    /\ lastFeed = NoFeed
    /\ lastCall = NoCall
    /\ recl = IdleRecluster
    /\ timeline = NoTimeline

NextReads ==
    \/ \E labels \in Labels(Len(collection)) : Recluster(labels)
    \/ \E cluster_id \in ReadClusters, n \in 0..MaxN : GetClusterArticlesCall(cluster_id, n)
    \/ \E cluster_id \in ReadClusters, n \in 0..MaxN : GetBoundaryArticlesCall(cluster_id, n)

SpecReads == InitReads /\ [][NextReads]_vars

\* The position of the stored record with this id.
PositionOf(id) == CHOOSE k \in 1..Len(collection) : collection[k].id = id

\* The positions of the cluster's records.
Members(cluster_id) == {k \in 1..Len(collection) : collection[k].cluster_id = cluster_id}

\* The distance of the record at position k from the centroid of its
\* cluster, times the size of the cluster.
FromCentroid(k) == Distance(ClusterIndices(collection[k].cluster_id, 1), k)

\* The rank of an external id in lexicographic order.
IdRank(id) == CHOOSE k \in 1..Len(TopoItems) : TopoItems[k].external_id = id

\* Every item of a read's result is a stored record of the cluster.
FromCluster(result, cluster_id) ==
    \A i \in 1..Len(result) :
        \E k \in Members(cluster_id) : collection[k].id = result[i].id

\* C21: get_cluster_articles(c, n) and get_boundary_articles(c, n), for a
\* cluster c >= 0 and n >= 0, return at most n items, each a stored item
\* whose cluster_id is c; get_boundary_articles returns min(n, members)
\* different members, in descending order of distance from the centroid,
\* and no member left out is farther than one returned.
C21_ReadsStayInCluster ==
    [][lastCall' # lastCall =>
          LET r == lastCall'.result
              c == lastCall'.args[1]
              n == lastCall'.args[2]
          IN  /\ Len(r) <= n
              /\ FromCluster(r, c)
              /\ lastCall'.op = "get_boundary_articles" =>
                    /\ Len(r) = Min(n, Cardinality(Members(c)))
                    /\ \A i, j \in 1..Len(r) : r[i].id = r[j].id => i = j
                    /\ \A i, j \in 1..Len(r) :
                          i < j => FromCentroid(PositionOf(r[i].id))
                                      >= FromCentroid(PositionOf(r[j].id))
                    /\ \A k \in Members(c) :
                          (\A i \in 1..Len(r) : r[i].id # collection[k].id) =>
                              \A i \in 1..Len(r) :
                                  FromCentroid(k) <= FromCentroid(PositionOf(r[i].id))]_vars

\* C27: in the result of get_cluster_articles, items of equal
\* published_at, and in the result of get_boundary_articles, items at equal
\* distance from the centroid, are in ascending order of external id.
C27_TiesInIdOrder ==
    [][lastCall' # lastCall =>
          LET r == lastCall'.result
          IN  \A i, j \in 1..Len(r) :
                  (/\ i < j
                   /\ IF lastCall'.op = "get_cluster_articles"
                      THEN r[i].published_at = r[j].published_at
                      ELSE FromCentroid(PositionOf(r[i].id))
                              = FromCentroid(PositionOf(r[j].id)))
                  => IdRank(r[i].id) < IdRank(r[j].id)]_vars

(***************************************************************************)
(* recluster step by step, with a reader beside it.                        *)
(***************************************************************************)
\* The cluster_id of every record, in the collection's order.
Assignment == [k \in 1..Len(collection) |-> collection[k].cluster_id]

\* recluster up to fit_predict: the records are read and labelled.
ReclusterBegin(labels) ==
    /\ recl.pc = "idle"
    /\ collection # <<>>
    /\ fitted = Len(collection) => labels = Assignment
    /\ fitted' = Len(collection)
    /\ recl' = [pc |-> "updating", before |-> Assignment, labels |-> labels, i |-> 0,
                todo |-> DOMAIN ClusterCounts(labels) \ {-1}]
    /\ reclusteredBy' = reclusteredBy \cup {"direct"}
    /\ UNCHANGED <<collectorVars, schedulerVars, collection, arms, actionLogs, lastIngest,
                   lastAction, calls, lastFeed, lastCall,
                   timeline>>

\* One round of the loop over ids: collection.update of one record.
ReclusterUpdate ==
    /\ recl.pc = "updating"
    /\ recl.i < Len(collection)
    /\ collection' = [collection EXCEPT ![recl.i + 1].cluster_id = recl.labels[recl.i + 1]]
    /\ recl' = [recl EXCEPT !.i = recl.i + 1,
                            !.pc = IF recl.i + 1 = Len(collection) THEN "syncing"
                                   ELSE "updating"]
    /\ UNCHANGED <<collectorVars, schedulerVars, arms, actionLogs, reclusteredBy, lastIngest,
                   fitted, lastAction, calls, lastFeed, lastCall,
                   timeline>>

\* One round of the loop over cluster_counts: upsert_cluster_arm, committed;
\* after the last one recluster returns.
ReclusterUpsert(cluster_id) ==
    /\ recl.pc = "syncing"
    /\ cluster_id \in recl.todo
    /\ arms' = UpsertClusterArm(arms, cluster_id, ClusterCounts(recl.labels)[cluster_id])
    /\ recl' = IF recl.todo = {cluster_id} THEN IdleRecluster
               ELSE [recl EXCEPT !.todo = recl.todo \ {cluster_id}]
    /\ UNCHANGED <<collectorVars, schedulerVars, collection, actionLogs, reclusteredBy,
                   lastIngest, fitted, lastAction, calls, lastFeed, lastCall,
                   timeline>>

\* recluster returns when no cluster is left to sync (all records noise).
ReclusterReturn ==
    /\ recl.pc = "syncing"
    /\ recl.todo = {}
    /\ recl' = IdleRecluster
    /\ UNCHANGED <<collectorVars, schedulerVars, collection, arms, actionLogs, reclusteredBy,
                   lastIngest, fitted, lastAction, calls, lastFeed, lastCall,
                   timeline>>

\* A reader's get_cluster_articles for the whole cluster.
ReadCluster(cluster_id) == GetClusterArticlesCall(cluster_id, Len(collection))

NextRecluster ==
    \/ \E labels \in Labels(Len(collection)) : ReclusterBegin(labels)
    \/ ReclusterUpdate
    \/ \E cluster_id \in ReadClusters : ReclusterUpsert(cluster_id)
    \/ ReclusterReturn
    \/ \E cluster_id \in ReadClusters : ReadCluster(cluster_id)

SpecRecluster == InitBandit /\ [][NextRecluster]_vars

\* The ids of the records that an assignment puts in a cluster.
IdsIn(assignment, cluster_id) ==
    {collection[k].id : k \in {j \in 1..Len(collection) : assignment[j] = cluster_id}}

\* C26: a read of a cluster's members made while recluster is writing
\* returns the members under the assignment from before that recluster or
\* the members under the assignment after it, never a part of each.
C26_ReaderSeesOldOrNew ==
    [][(lastCall' # lastCall /\ recl.pc = "updating") =>
          LET seen == {lastCall'.result[i].id : i \in 1..Len(lastCall'.result)}
              c == lastCall'.args[1]
          IN  \/ seen = IdsIn(recl.before, c)
              \/ seen = IdsIn(recl.labels, c)]_vars

(***************************************************************************)
(* CoOccurrenceService.                                                    *)
(***************************************************************************)
MaxTrendArticles == 3

\* _normalize_tag on the tags of TagLists: lower case, stripped, the part
\* after the last ":" and then the part before the first ",".
NormalizeTag(tag) ==
    CASE tag = "AWS" -> "aws"
      [] tag = "Rust" -> "rust"
      [] tag = "category:aws" -> "aws"
      [] tag = "go,rust" -> "go"
      [] tag = " " -> ""
      [] OTHER -> tag

\* The tag lists of the articles analyzed.
TagLists ==
    {<<"AWS", "rust", "go">>, <<"category:aws", "Rust", "go,rust">>,
     <<"gcp", "go", " ">>, <<"rust", "go">>, <<>>}

\* The tech stacks the service is built with, and its max_results.
TechStacks == {{}, {"AWS"}, {"aws", "gcp"}, {"rust"}}

MaxResults == {1, 10}

\* The orders in which a set of tags is iterated.
TagOrders == {<<"aws", "gcp", "go", "rust">>, <<"rust", "go", "gcp", "aws">>,
              <<"go", "rust", "aws", "gcp">>}

\* self._tech_stack.
StackLower(tech_stack) == {Lower(t) : t \in tech_stack}

\* normalized_tags of an article.
NormalizedTags(article) == {NormalizeTag(t) : t \in Range(article.tags)} \ {""}

\* The articles that count for a tag: it is among their normalized tags and
\* they hit the stack.
CoArticles(arts, stack, tag) ==
    {i \in 1..Len(arts) : /\ tag \in NormalizedTags(arts[i])
                          /\ tag \notin stack
                          /\ NormalizedTags(arts[i]) \cap stack # {}}

\* The keys of outside_tags in the order of their insertion: article by
\* article, the tags of one article in the set's iteration order.
RECURSIVE OutsideKeys(_, _, _)
OutsideKeys(arts, stack, order) ==
    IF arts = <<>> THEN <<>>
    ELSE LET before == OutsideKeys(SubSeq(arts, 1, Len(arts) - 1), stack, order)
             article == arts[Len(arts)]
             outside == IF NormalizedTags(article) \cap stack = {} THEN {}
                        ELSE NormalizedTags(article) \ stack
         IN  before \o SelectSeq(order, LAMBDA t : t \in outside \ Range(before))

\* The entry of outside_tags for a tag.
TrendEntry(arts, stack, tag) ==
    LET co == CoArticles(arts, stack, tag)
        ids == SelectSeq([i \in 1..Len(arts) |-> i], LAMBDA i : i \in co)
    IN  [name |-> tag, count |-> Cardinality(co),
         related_to |-> UNION {NormalizedTags(arts[i]) \cap stack : i \in co},
         sample_article_ids |-> [k \in 1..Min(3, Len(ids)) |-> arts[ids[k]].id]]

\* sorted(..., key = count, reverse = True): stable.
RECURSIVE SortByCountAscending(_)
SortByCountAscending(entries) ==
    IF entries = <<>> THEN <<>>
    ELSE LET rest == SortByCountAscending(SubSeq(entries, 1, Len(entries) - 1))
             x == entries[Len(entries)]
         IN  SelectSeq(rest, LAMBDA e : e.count <= x.count)
             \o <<x>> \o
             SelectSeq(rest, LAMBDA e : e.count > x.count)

RECURSIVE SortByCount(_)
SortByCount(entries) ==
    IF entries = <<>> THEN <<>>
    ELSE LET rest == SortByCount(SubSeq(entries, 1, Len(entries) - 1))
             x == entries[Len(entries)]
         IN  SelectSeq(rest, LAMBDA e : e.count >= x.count)
             \o <<x>> \o
             SelectSeq(rest, LAMBDA e : e.count < x.count)

\* CoOccurrenceService(tech_stack, max_results).analyze(articles).
AnalyzeTrends(tech_stack, max_results, arts, order) ==
    LET stack == StackLower(tech_stack)
        keys == OutsideKeys(arts, stack, order)
        entries == [k \in 1..Len(keys) |-> TrendEntry(arts, stack, keys[k])]
    IN  IF stack = {} \/ arts = <<>> THEN <<>>
        ELSE SelectSeq(Take(SortByCount(entries), max_results), LAMBDA e : e.count >= 2)

\* A call of analyze on the table articles.
AnalyzeCall(tech_stack, max_results, order) ==
    /\ lastCall' = [op |-> "analyze", args |-> <<tech_stack, max_results>>,
                    result |-> AnalyzeTrends(tech_stack, max_results, articles, order)]
    /\ UNCHANGED <<collectorVars, schedulerVars, collection, arms, actionLogs, reclusteredBy,
                   lastIngest, fitted, lastAction, calls, lastFeed, recl,
                   timeline>>

\* The row of an article with these tags.
TaggedRow(i, tags) ==
    BaseArticle(RawArticle(TopoItems[i].external_id, "u", "t", <<>>, 1, "AWS", tags),
                "aws-whatsnew", <<0, "aws-whatsnew", i>>)

\* A process whose table articles holds up to MaxTrendArticles articles.
InitTrends ==
    /\ \E n \in 0..MaxTrendArticles : \E tags \in [1..n -> TagLists] :
          articles = [i \in 1..n |-> TaggedRow(i, tags[i])]
    /\ sources = [p \in Plugins |-> [fetch_status |-> "absent", fetched |-> FALSE]]
    /\ runs = [r \in RunIds |-> IdleRun]
    /\ lastOk = [p \in Plugins |-> NoOutput]
    /\ schedRunning = FALSE
    /\ startupPending = FALSE
    /\ collection = <<>>
    /\ arms = <<>>
    /\ actionLogs = <<>>
    /\ reclusteredBy = {}
    /\ lastIngest = [n |-> 0, batch |-> <<>>, getOk |-> TRUE, returned |-> 0,
                     raised |-> FALSE]
    /\ fitted = 0
    /\ lastAction = [article_id |-> NoneStr, action |-> NoneStr]
    /\ calls = [p \in CallerIds |-> IdleCall]
    /\ lastFeed = NoFeed
    /\ lastCall = NoCall
    /\ recl = IdleRecluster
    /\ timeline = NoTimeline

NextTrends ==
    \E tech_stack \in TechStacks, max_results \in MaxResults, order \in TagOrders :
        AnalyzeCall(tech_stack, max_results, order)

SpecTrends == InitTrends /\ [][NextTrends]_vars

\* The normalized tags outside the stack that count at least twice.
Trending(stack) ==
    {tag \in UNION {NormalizedTags(articles[i]) : i \in 1..Len(articles)} :
        Cardinality(CoArticles(articles, stack, tag)) >= 2}

RequestOutcomes == {"ok", "not_found", "http_error", "network_error"}

Repositories == <<"langchain", "fastapi", "vite">>

PlatformFeeds == <<"blog", "changelog">>

\* The since hint: 0 stands for None.
Sinces == 0..2

\* The items one request returns when it succeeds: one published at 1 and
\* one published at 2, without the ones published before since.
ItemsOf(part, since) ==
    SelectSeq(<<[external_id |-> <<part, 1>>, published_at |-> 1],
                [external_id |-> <<part, 2>>, published_at |-> 2]>>,
              LAMBDA a : ~(since # 0 /\ a.published_at < since))

\* GitHubReleasesPlugin._fetch_repo_releases: [] for status 404 and for
\* every exception.
FetchRepoReleases(repo, since, outcome) ==
    IF outcome = "ok" THEN ItemsOf(repo, since) ELSE <<>>

\* GitHubReleasesPlugin.fetch_updates, before the sort.
RECURSIVE ReleasesFetchUpdates(_, _, _)
ReleasesFetchUpdates(repos, since, outcomes) ==
    IF repos = <<>> THEN <<>>
    ELSE FetchRepoReleases(Head(repos), since, Head(outcomes))
         \o ReleasesFetchUpdates(Tail(repos), since, Tail(outcomes))

\* GitHubPlatformPlugin.fetch_updates, before the sort: _fetch_feed raises
\* for every request that does not succeed, and fetch_updates raises
\* FetchError then.
PlatformFetchUpdates(since, outcomes) ==
    IF \E k \in 1..Len(PlatformFeeds) : outcomes[k] # "ok"
    THEN [raised |-> TRUE, items |-> <<>>]
    ELSE [raised |-> FALSE,
          items |-> ItemsOf(PlatformFeeds[1], since) \o ItemsOf(PlatformFeeds[2], since)]

\* A call of the releases plugin's fetch_updates.
ReleasesFetchCall(since, outcomes) ==
    /\ lastCall' = [op |-> "github_releases.fetch_updates", args |-> <<since, outcomes>>,
                    result |-> [raised |-> FALSE,
                                items |-> SortNewestFirst(
                                    ReleasesFetchUpdates(Repositories, since, outcomes))]]
    /\ UNCHANGED <<collectorVars, schedulerVars, collection, arms, actionLogs, reclusteredBy,
                   lastIngest, fitted, lastAction, calls, lastFeed, recl,
                   timeline>>

\* A call of the platform plugin's fetch_updates.
PlatformFetchCall(since, outcomes) ==
    /\ lastCall' = [op |-> "github_platform.fetch_updates", args |-> <<since, outcomes>>,
                    result |-> [PlatformFetchUpdates(since, outcomes) EXCEPT
                                   !.items = SortNewestFirst(@)]]
    /\ UNCHANGED <<collectorVars, schedulerVars, collection, arms, actionLogs, reclusteredBy,
                   lastIngest, fitted, lastAction, calls, lastFeed, recl,
                   timeline>>

NextPlugins ==
    \/ \E since \in Sinces, outcomes \in [1..Len(Repositories) -> RequestOutcomes] :
          ReleasesFetchCall(since, outcomes)
    \/ \E since \in Sinces, outcomes \in [1..Len(PlatformFeeds) -> RequestOutcomes] :
          PlatformFetchCall(since, outcomes)

SpecPlugins == InitCli /\ [][NextPlugins]_vars

\* C22: a fetch_updates in which a request failed raises FetchError; it
\* does not return a list without the items of the failed request.
C22_NoSilentPartialFetch ==
    (/\ lastCall.op \in {"github_releases.fetch_updates", "github_platform.fetch_updates"}
     /\ \E k \in DOMAIN lastCall.args[2] :
           lastCall.args[2][k] \in {"http_error", "network_error"})
    => lastCall.result.raised

(***************************************************************************)
(* Collection from one feed over time, with the since hint.                *)
(***************************************************************************)
MaxClock == 3

\* The entries the feed of aws-whatsnew comes to list, with their
\* publication dates.
FeedEntries ==
    {RawArticle("a", "u1", "t1", ContentShort, 1, "AWS", <<>>),
     RawArticle("b", "u2", "t2", ContentShort, 1, "AWS", <<>>),
     RawArticle("c", "u3", "t3", ContentShort, 2, "AWS", <<>>),
     RawArticle("d", "u4", "t4", ContentShort, 0, "AWS", <<>>)}

\* Time passes.
Tick ==
    /\ timeline.now < MaxClock
    /\ timeline' = [timeline EXCEPT !.now = timeline.now + 1]
    /\ UNCHANGED <<collectorVars, schedulerVars, collection, arms, actionLogs, reclusteredBy,
                   lastIngest, fitted, lastAction, calls, lastFeed, lastCall, recl>>

\* The feed starts to list an entry published by now.
List(entry) ==
    /\ entry \notin timeline.listed
    /\ entry.published_at <= timeline.now
    /\ timeline' = [timeline EXCEPT !.listed = timeline.listed \cup {entry}]
    /\ UNCHANGED <<collectorVars, schedulerVars, collection, arms, actionLogs, reclusteredBy,
                   lastIngest, fitted, lastAction, calls, lastFeed, lastCall, recl>>

\* AWSWhatsNewPlugin.fetch_updates(since) when the request succeeds: the
\* listed entries without the dated ones published before since.
AwsFetchUpdates(since) ==
    SetToSeq({e \in timeline.listed :
                 ~(since # 0 /\ e.published_at # 0 /\ e.published_at < since)})

\* _collect_from_plugin with a fetch that succeeds, processing skipped:
\* fetch_updates(since = source.last_fetched_at), _deduplicate, the save,
\* and last_fetched_at = now.
CollectWithSince ==
    /\ LET raw_articles == AwsFetchUpdates(timeline.last_fetched_at)
           new_articles == Deduplicate(articles, raw_articles)
       IN  articles' = articles \o
               [i \in 1..Len(new_articles) |->
                   BaseArticle(new_articles[i], "aws-whatsnew",
                               <<Len(articles), "aws-whatsnew", i>>)]
    /\ timeline' = [timeline EXCEPT !.last_fetched_at = timeline.now,
                                    !.run = 1 - timeline.run]
    /\ UNCHANGED <<sources, runs, lastOk, schedulerVars, collection, arms, actionLogs,
                   reclusteredBy, lastIngest, fitted, lastAction, calls, lastFeed, lastCall,
                   recl>>

NextSince ==
    \/ Tick
    \/ \E entry \in FeedEntries : List(entry)
    \/ CollectWithSince

\* Collections keep being run and their fetches keep succeeding.
SpecSince == InitCli /\ [][NextSince]_vars /\ WF_vars(CollectWithSince)

\* C29: every entry the feed lists is stored in the end.
C29_ListedEntriesGetStored ==
    \A entry \in FeedEntries :
        (entry \in timeline.listed)
            ~> (\E row \in 1..Len(articles) : articles[row].external_id = entry.external_id)

====
